---- MODULE Spec2Model ----
(***************************************************************************)
(* AndyWeb / BowersWorld.com authentication core.                          *)
(*                                                                         *)
(* Spec      : the Users / UserSessions tables of DatabaseManager driven   *)
(*             by the MainAPI handlers (register, login, logout, profile,  *)
(*             cleanup-sessions) and by direct calls of the session        *)
(*             methods (ValidateSession, LogoutUser,                       *)
(*             CleanupExpiredSessions).  The handlers are modelled for     *)
(*             requests that the CheckRateLimit dependency admitted; the   *)
(*             limiter itself shares no state with the tables.             *)
(* SpecLockout : register and login only, with wrong and right passwords   *)
(*             and a clock that advances by the lockout duration: the      *)
(*             LoginAttempts / AccountLockedUntil columns.                 *)
(* SpecRegister : register with emails and usernames that collide: the     *)
(*             UNIQUE constraints of the Users table.                      *)
(* SpecValidate : register with request bodies that pass or fail the       *)
(*             UserRegistrationRequest model.                              *)
(* SpecRace  : failed logins of several requests at once, each on its own  *)
(*             connection: IncrementLoginAttempts as a SELECT step and an  *)
(*             UPDATE step.                                                *)
(* SpecSessionRace : ValidateSession as a SELECT step and an UPDATE step,  *)
(*             interleaved with LogoutUser and CleanupExpiredSessions.     *)
(* SpecSessionCap : one free-tier account logging in more often than its   *)
(*             tier's concurrent_sessions.                                 *)
(* SpecFaults : register, login, logout and profile requests during which  *)
(*             the store fails: Connect() refused, a SELECT raising, the   *)
(*             INSERT of the activity log raising.                         *)
(* SpecDeactivated : logins on accounts whose IsActive column was cleared. *)
(* SpecRate  : the in-memory token buckets of RateLimiter.                 *)
(* SpecRateClass : one caller on two paths of one endpoint class.          *)
(* SpecBucketRace : is_allowed called by several threads on one bucket.    *)
(* SpecSweep : the sweep of stale buckets, with the time of the last check *)
(*             of every bucket on record.                                  *)
(*                                                                         *)
(* Clock of Spec: whole hours.  `now` is UTC (what SQLite's                *)
(* CURRENT_TIMESTAMP reads); datetime.now() is the naive local time        *)
(* now + tz.                                                               *)
(***************************************************************************)
EXTENDS Integers, Sequences, FiniteSets, TLC

VARIABLES
    now,        \* UTC clock, hours
    tz,         \* offset of the server's local time from UTC, hours
    ticks,      \* number of clock advances so far
    users,      \* Users table
    sessions,   \* UserSessions table
    nextToken,  \* the next token secrets.token_urlsafe returns
    loggedOut,  \* history: tokens LogoutUser was executed for
    resp,       \* the last call and what it returned
    time,       \* time.time(), seconds
    rticks,     \* number of advances of time so far
    buckets,    \* RateLimiter.buckets
    last_cleanup,   \* RateLimiter.last_cleanup
    emptied,    \* history: when a request last took the last token of a bucket
    touched,    \* history, where it is tracked: when each bucket key was last checked
    burstChecks,    \* history: checks of a bucket since its creation, no time elapsed
    rresp,      \* the last rate-limit check and what it returned
    procs,      \* requests in flight: where each one is in its method
    completed   \* history: failed logins that wrote the attempt counter

authVars == <<now, tz, ticks, users, sessions, nextToken, loggedOut, resp>>
rateVars == <<time, rticks, buckets, last_cleanup, emptied, touched, burstChecks, rresp>>
concVars == <<procs, completed>>
vars == <<authVars, rateVars, concVars>>

----------------------------------------------------------------------------
(* Program constants (AuthConfig.py) *)

MAX_LOGIN_ATTEMPTS == 5
LOCKOUT_DURATION == 1
SESSION_EXPIRY == 24
HoursPerDay == 24

(* Bounds of the model *)

MaxUsers == 2
MaxSessions == 1
MaxTicks == 2
MaxProcs == 2
MaxLogins == 6

StartHour == HoursPerDay
TzOffsets == {0 - 5, 0}
TickSteps == {1, HoursPerDay - 1}

----------------------------------------------------------------------------
(* Strings are sequences of characters *)

LowerChar(c) ==
    CASE c = "A" -> "a"
      [] c = "B" -> "b"
      [] OTHER -> c

Lower(s) == [i \in DOMAIN s |-> LowerChar(s[i])]

IsSpace(c) == c = " "

RECURSIVE LStrip(_)
LStrip(s) == IF s # <<>> /\ IsSpace(Head(s)) THEN LStrip(Tail(s)) ELSE s

RECURSIVE RStrip(_)
RStrip(s) ==
    IF s # <<>> /\ IsSpace(s[Len(s)]) THEN RStrip(SubSeq(s, 1, Len(s) - 1)) ELSE s

Strip(s) == RStrip(LStrip(s))

\* UserRegistrationRequest.ValidateEmail / UserLoginRequest.ValidateEmail
ValidateEmail(Value) == Strip(Lower(Value))

\* UserRegistrationRequest: the Field constraints, checked on the raw value
\* before the field validators run.
\* email: pattern ^[\w\.-]+@[\w\.-]+\.[a-zA-Z]{2,}$
IsLetter(c) == c \in {"a", "b", "c", "o", "x", "y", "A", "B"}
IsWordChar(c) == IsLetter(c) \/ c \in {"0", "1", "_"}
IsEmailChar(c) == IsWordChar(c) \/ c \in {".", "-"}
EmailPattern(s) ==
    \E i, j \in DOMAIN s :
        /\ 1 < i /\ i + 1 < j /\ j + 2 <= Len(s)
        /\ s[i] = "@" /\ s[j] = "."
        /\ \A k \in 1 .. i - 1 : IsEmailChar(s[k])
        /\ \A k \in i + 1 .. j - 1 : IsEmailChar(s[k])
        /\ \A k \in j + 1 .. Len(s) : IsLetter(s[k])

\* password: min_length=8, max_length=100; username: min_length=3, max_length=30
password_min_length == 8
password_max_length == 100
username_min_length == 3
username_max_length == 30
\* subscription_tier: pattern ^(free|scholar|researcher|institution)$
TierPattern(t) == t \in {"free", "scholar", "researcher", "institution"}

ValidRegistrationAnyTier(req) ==
    /\ EmailPattern(req.email)
    /\ password_min_length <= Len(req.password)
    /\ Len(req.password) <= password_max_length
    /\ req.username # <<>> =>
          (username_min_length <= Len(req.username)
             /\ Len(req.username) <= username_max_length)
ValidRegistration(req) ==
    /\ EmailPattern(req.email)
    /\ password_min_length <= Len(req.password)
    /\ Len(req.password) <= password_max_length
    /\ req.username # <<>> =>
          (username_min_length <= Len(req.username)
             /\ Len(req.username) <= username_max_length)
    /\ TierPattern(req.subscription_tier)

\* Email.split('@')[0]
RECURSIVE SplitAtFirst(_)
SplitAtFirst(s) ==
    IF s = <<>> \/ Head(s) = "@" THEN <<>> ELSE <<Head(s)>> \o SplitAtFirst(Tail(s))

\* PwdContext.hash / PwdContext.verify (bcrypt; the salt is not modelled)
PwdHash(Password) == <<"bcrypt", Password>>
PwdVerify(Password, Hash) == Hash = PwdHash(Password)

----------------------------------------------------------------------------
(* Timestamps as the text SQLite and Python compare *)

DateOf(t) == t \div HoursPerDay
HourOf(t) == t % HoursPerDay

CharCode(c) == IF c = " " THEN 32 ELSE 84      \* ord(' '), ord('T')

\* datetime.isoformat(): 'YYYY-MM-DDTHH:...'
IsoFormat(t) == [date |-> DateOf(t), sep |-> "T", hour |-> HourOf(t)]
\* SQLite CURRENT_TIMESTAMP: 'YYYY-MM-DD HH:MM:SS' in UTC
CurrentTimestamp(t) == [date |-> DateOf(t), sep |-> " ", hour |-> HourOf(t)]
\* datetime.fromisoformat()
FromIsoFormat(x) == x.date * HoursPerDay + x.hour

\* BINARY collation: byte-wise comparison of the two texts
TextLess(a, b) ==
    \/ a.date < b.date
    \/ a.date = b.date /\ CharCode(a.sep) < CharCode(b.sep)
    \/ a.date = b.date /\ CharCode(a.sep) = CharCode(b.sep) /\ a.hour < b.hour

LocalNow == now + tz

NULL == <<>>

----------------------------------------------------------------------------
(* DatabaseManager: Users table.  users[i] is the row with Id = i.         *)

UserRow(Email, Username, Password, SubscriptionTier) ==
    [Email |-> Email, Username |-> Username, PasswordHash |-> PwdHash(Password),
     SubscriptionTier |-> SubscriptionTier,
     IsActive |-> TRUE, LoginAttempts |-> 0, AccountLockedUntil |-> NULL]

\* CHECK(SubscriptionTier IN ('free', 'scholar', 'researcher', 'institution'))
SubscriptionTiers == {"free", "scholar", "researcher", "institution"}

\* AuthConfig.SUBSCRIPTION_LIMITS[tier]['concurrent_sessions']
concurrent_sessions(tier) ==
    CASE tier = "guest" -> 1
      [] tier = "free" -> 2
      [] tier = "scholar" -> 3
      [] tier = "researcher" -> 5
      [] tier = "institution" -> 25

\* SELECT * FROM Users WHERE Email = ? AND IsActive = TRUE  (Results[0] or None)
GetUserByEmailAnyRow(U, Email) ==
    LET ids == {i \in DOMAIN U : U[i].Email = Email}
    IN  IF ids = {} THEN 0 ELSE CHOOSE i \in ids : \A j \in ids : i <= j
GetUserByEmail(U, Email) ==
    LET ids == {i \in DOMAIN U : U[i].Email = Email /\ U[i].IsActive}
    IN  IF ids = {} THEN 0 ELSE CHOOSE i \in ids : \A j \in ids : i <= j

\* SELECT * FROM Users WHERE Id = ? AND IsActive = TRUE
GetUserById(U, UserId) ==
    IF UserId \in DOMAIN U /\ U[UserId].IsActive THEN UserId ELSE 0

\* The outcomes of CreateUser: the table afterwards and what is returned.
\* Email and Username are UNIQUE (BINARY collation).  When both constraints
\* fail SQLite names one of them in the IntegrityError (3.40 names
\* Users.Username); the order is not documented.
CreateUserWholeEmail(U, Email, Password, UsernameArg, SubscriptionTier) ==
    LET Username == IF UsernameArg = NULL THEN Email ELSE UsernameArg
        emailTaken == \E i \in DOMAIN U : U[i].Email = Email
        nameTaken  == \E i \in DOMAIN U : U[i].Username = Username
        tierBad    == SubscriptionTier \notin SubscriptionTiers
    IN  IF ~emailTaken /\ ~nameTaken /\ ~tierBad
        THEN {[users |-> Append(U, UserRow(Email, Username, Password, SubscriptionTier)),
               error |-> "", Id |-> Len(U) + 1]}
        ELSE {[users |-> U, error |-> e, Id |-> 0] :
                e \in (IF emailTaken THEN {"email_exists"} ELSE {})
                      \cup (IF nameTaken THEN {"username_exists"} ELSE {})
                      \cup (IF tierBad THEN {"integrity_error"} ELSE {})}
CreateUser(U, Email, Password, UsernameArg, SubscriptionTier) ==
    LET Username == IF UsernameArg = NULL THEN SplitAtFirst(Email) ELSE UsernameArg
        emailTaken == \E i \in DOMAIN U : U[i].Email = Email
        nameTaken  == \E i \in DOMAIN U : U[i].Username = Username
        tierBad    == SubscriptionTier \notin SubscriptionTiers
    IN  IF ~emailTaken /\ ~nameTaken /\ ~tierBad
        THEN {[users |-> Append(U, UserRow(Email, Username, Password, SubscriptionTier)),
               error |-> "", Id |-> Len(U) + 1]}
        ELSE {[users |-> U, error |-> e, Id |-> 0] :
                e \in (IF emailTaken THEN {"email_exists"} ELSE {})
                      \cup (IF nameTaken THEN {"username_exists"} ELSE {})
                      \cup (IF tierBad THEN {"integrity_error"} ELSE {})}

\* UPDATE Users SET LoginAttempts = 0, AccountLockedUntil = NULL WHERE Id = ?
ResetLoginAttemptsKeepLock(U, UserId) ==
    [U EXCEPT ![UserId].LoginAttempts = 0]
ResetLoginAttempts(U, UserId) ==
    [U EXCEPT ![UserId].LoginAttempts = 0, ![UserId].AccountLockedUntil = NULL]

\* read LoginAttempts, add one, lock when the threshold is reached
IncrementLoginAttemptsLate(U, UserId, localNow) ==
    LET CurrentAttempts == U[UserId].LoginAttempts + 1
    IN  IF CurrentAttempts > MAX_LOGIN_ATTEMPTS
        THEN [U EXCEPT ![UserId].LoginAttempts = CurrentAttempts,
                       ![UserId].AccountLockedUntil =
                            IsoFormat(localNow + LOCKOUT_DURATION)]
        ELSE [U EXCEPT ![UserId].LoginAttempts = CurrentAttempts]
IncrementLoginAttempts(U, UserId, localNow) ==
    LET CurrentAttempts == U[UserId].LoginAttempts + 1
    IN  IF CurrentAttempts >= MAX_LOGIN_ATTEMPTS
        THEN [U EXCEPT ![UserId].LoginAttempts = CurrentAttempts,
                       ![UserId].AccountLockedUntil =
                            IsoFormat(localNow + LOCKOUT_DURATION)]
        ELSE [U EXCEPT ![UserId].LoginAttempts = CurrentAttempts]

\* the two statements of IncrementLoginAttempts, for callers that interleave:
\* SELECT LoginAttempts FROM Users WHERE Id = ?  (plus one)
IncrementSelect(U, UserId) == U[UserId].LoginAttempts + 1
\* UPDATE Users SET LoginAttempts = ? [, AccountLockedUntil = ?] WHERE Id = ?
IncrementUpdate(U, UserId, CurrentAttempts, localNow) ==
    IF CurrentAttempts >= MAX_LOGIN_ATTEMPTS
    THEN [U EXCEPT ![UserId].LoginAttempts = CurrentAttempts,
                   ![UserId].AccountLockedUntil =
                        IsoFormat(localNow + LOCKOUT_DURATION)]
    ELSE [U EXCEPT ![UserId].LoginAttempts = CurrentAttempts]

\* User['AccountLockedUntil'] and fromisoformat(...) > datetime.now()
AccountIsLockedForever(row, localNow) == row.AccountLockedUntil # NULL
AccountIsLockedAtExpiry(row, localNow) ==
    row.AccountLockedUntil # NULL /\ FromIsoFormat(row.AccountLockedUntil) >= localNow
AccountIsLocked(row, localNow) ==
    row.AccountLockedUntil # NULL /\ FromIsoFormat(row.AccountLockedUntil) > localNow

\* AuthenticateUser: the table afterwards, the result ("none" is None,
\* "account_locked" the error dict, "user" the row read at the start)
AuthenticateUserNoLockCheck(U, Email, Password, localNow) ==
    LET UserId == GetUserByEmail(U, Email)
    IN  IF UserId = 0 THEN [users |-> U, result |-> "none", Id |-> 0]
        ELSE IF PwdVerify(Password, U[UserId].PasswordHash)
        THEN [users |-> ResetLoginAttempts(U, UserId), result |-> "user", Id |-> UserId]
        ELSE [users |-> IncrementLoginAttempts(U, UserId, localNow),
              result |-> "none", Id |-> 0]
AuthenticateUser(U, Email, Password, localNow) ==
    LET UserId == GetUserByEmail(U, Email)
    IN  IF UserId = 0 THEN [users |-> U, result |-> "none", Id |-> 0]
        ELSE IF AccountIsLocked(U[UserId], localNow)
        THEN [users |-> U, result |-> "account_locked", Id |-> 0]
        ELSE IF PwdVerify(Password, U[UserId].PasswordHash)
        THEN [users |-> ResetLoginAttempts(U, UserId), result |-> "user", Id |-> UserId]
        ELSE [users |-> IncrementLoginAttempts(U, UserId, localNow),
              result |-> "none", Id |-> 0]

----------------------------------------------------------------------------
(* DatabaseManager: UserSessions table, a set of rows *)

\* secrets.token_urlsafe(32): a token never issued before
\* INSERT INTO UserSessions (...) with ExpiresAt = (now() + SESSION_EXPIRY).isoformat()
CreateUserSessionInactive(S, UserId, token, localNow, utcNow) ==
    S \cup {[SessionToken |-> token, UserId |-> UserId,
             ExpiresAt |-> IsoFormat(localNow + SESSION_EXPIRY),
             IsActive |-> FALSE, LastAccessAt |-> CurrentTimestamp(utcNow)]}
CreateUserSession(S, UserId, token, localNow, utcNow) ==
    S \cup {[SessionToken |-> token, UserId |-> UserId,
             ExpiresAt |-> IsoFormat(localNow + SESSION_EXPIRY),
             IsActive |-> TRUE, LastAccessAt |-> CurrentTimestamp(utcNow)]}

\* WHERE s.SessionToken = ? AND s.IsActive = TRUE AND s.ExpiresAt > CURRENT_TIMESTAMP
\* (JOIN Users u ON s.UserId = u.Id)
ValidRowsIgnoreActive(S, U, token, utcNow) ==
    {s \in S : /\ s.SessionToken = token
               /\ TextLess(CurrentTimestamp(utcNow), s.ExpiresAt)
               /\ s.UserId \in DOMAIN U}
ValidRows(S, U, token, utcNow) ==
    {s \in S : /\ s.SessionToken = token
               /\ s.IsActive
               /\ TextLess(CurrentTimestamp(utcNow), s.ExpiresAt)
               /\ s.UserId \in DOMAIN U}

\* UPDATE UserSessions SET LastAccessAt = CURRENT_TIMESTAMP WHERE SessionToken = ?
TouchSession(S, token, utcNow) ==
    {IF s.SessionToken = token
       THEN [s EXCEPT !.LastAccessAt = CurrentTimestamp(utcNow)] ELSE s : s \in S}

\* ValidateSession: the table afterwards and the row returned (or none)
ValidateSession(S, U, token, utcNow) ==
    LET Results == ValidRows(S, U, token, utcNow)
    IN  IF Results # {}
        THEN [sessions |-> TouchSession(S, token, utcNow), ok |-> TRUE,
              UserId |-> (CHOOSE s \in Results : TRUE).UserId]
        ELSE [sessions |-> S, ok |-> FALSE, UserId |-> 0]

\* UPDATE UserSessions SET IsActive = FALSE WHERE SessionToken = ?; return True
LogoutUser(S, token) ==
    {IF s.SessionToken = token THEN [s EXCEPT !.IsActive = FALSE] ELSE s : s \in S}

\* DELETE FROM UserSessions WHERE ExpiresAt < CURRENT_TIMESTAMP OR IsActive = FALSE
CleanupDeletes(S, utcNow) ==
    {s \in S : TextLess(s.ExpiresAt, CurrentTimestamp(utcNow)) \/ ~s.IsActive}

\* CleanupExpiredSessions: the table afterwards and Cursor.rowcount
CleanupExpiredSessions(S, utcNow) ==
    [sessions |-> S \ CleanupDeletes(S, utcNow),
     CleanedCount |-> Cardinality(CleanupDeletes(S, utcNow))]

\* GetUserStatistics: COUNT(*) of the active users, and of the sessions
\* WHERE IsActive = TRUE AND ExpiresAt > CURRENT_TIMESTAMP
GetUserStatistics(S, U, utcNow) ==
    [TotalUsers |-> Cardinality({i \in DOMAIN U : U[i].IsActive}),
     ActiveSessions |-> Cardinality({s \in S :
          s.IsActive /\ TextLess(CurrentTimestamp(utcNow), s.ExpiresAt)})]

----------------------------------------------------------------------------
(* AuthConfig.RATE_LIMITS and RateLimiter *)

RATE_LIMITS ==
    [registration |-> [requests_per_minute |-> 3, requests_per_hour |-> 10, burst_limit |-> 5],
     login |-> [requests_per_minute |-> 10, requests_per_hour |-> 30, burst_limit |-> 15],
     api_general |-> [requests_per_minute |-> 60, requests_per_hour |-> 1000, burst_limit |-> 100],
     download |-> [requests_per_minute |-> 5, requests_per_hour |-> 50, burst_limit |-> 10]]

cleanup_interval == 300
StaleAfter == 3600

\* request paths, as sequences of "/" and segments
RegisterPath == <<"/", "api", "/", "auth", "/", "register">>
LoginPath == <<"/", "api", "/", "auth", "/", "login">>
BooksPath == <<"/", "api", "/", "books">>

StartsWith(s, pre) == Len(pre) <= Len(s) /\ SubSeq(s, 1, Len(pre)) = pre
EndsWith(s, suf) ==
    Len(suf) <= Len(s) /\ SubSeq(s, Len(s) - Len(suf) + 1, Len(s)) = suf

\* _get_rate_config: the first pattern of endpoint_mapping that matches, else api_general
RateLimitType(endpoint) ==
    CASE endpoint = RegisterPath -> "registration"
      [] endpoint = LoginPath -> "login"
      [] endpoint = BooksPath -> "api_general"
      [] endpoint = BooksPath \o <<"/", "search">> -> "api_general"
      [] endpoint = BooksPath \o <<"/", "filter">> -> "api_general"
      [] /\ StartsWith(endpoint, BooksPath \o <<"/">>)
         /\ EndsWith(endpoint, <<"/", "pdf">>) -> "download"
      [] OTHER -> "api_general"

get_rate_config(endpoint) == RATE_LIMITS[RateLimitType(endpoint)]

\* _get_bucket_key: f"{endpoint}:{identifier}"
get_bucket_key(identifier, endpoint) == <<endpoint, ":", identifier>>

\* int(x / y) for integers x, y > 0: truncation toward zero
IntDiv(x, y) == IF x >= 0 THEN x \div y ELSE 0 - ((0 - x) \div y)

\* _cleanup_expired_buckets: the buckets and last_cleanup afterwards
cleanup_expired_buckets_at_window(B, lastCleanup, current_time) ==
    IF current_time - lastCleanup < cleanup_interval
    THEN [buckets |-> B, last_cleanup |-> lastCleanup]
    ELSE LET expired_keys ==
                {k \in DOMAIN B : current_time - B[k].last_refill >= StaleAfter}
         IN  [buckets |-> [k \in DOMAIN B \ expired_keys |-> B[k]],
              last_cleanup |-> current_time]
cleanup_expired_buckets(B, lastCleanup, current_time) ==
    IF current_time - lastCleanup < cleanup_interval
    THEN [buckets |-> B, last_cleanup |-> lastCleanup]
    ELSE LET expired_keys ==
                {k \in DOMAIN B : current_time - B[k].last_refill > StaleAfter}
         IN  [buckets |-> [k \in DOMAIN B \ expired_keys |-> B[k]],
              last_cleanup |-> current_time]

\* _refill_bucket
refill_bucket_uncapped(bucket, rate_config, current_time) ==
    LET time_elapsed == current_time - bucket.last_refill
        tokens_to_add == IntDiv(time_elapsed * rate_config.requests_per_minute, 60)
    IN  IF tokens_to_add > 0
        THEN [tokens |-> bucket.tokens + tokens_to_add, last_refill |-> current_time]
        ELSE bucket
refill_bucket_always_stamp(bucket, rate_config, current_time) ==
    LET time_elapsed == current_time - bucket.last_refill
        tokens_to_add == IntDiv(time_elapsed * rate_config.requests_per_minute, 60)
        sum == bucket.tokens + tokens_to_add
    IN  [tokens |-> IF tokens_to_add <= 0 THEN bucket.tokens
                    ELSE IF rate_config.burst_limit < sum
                      THEN rate_config.burst_limit ELSE sum,
         last_refill |-> current_time]
refill_bucket(bucket, rate_config, current_time) ==
    LET time_elapsed == current_time - bucket.last_refill
        tokens_to_add == IntDiv(time_elapsed * rate_config.requests_per_minute, 60)
        sum == bucket.tokens + tokens_to_add
    IN  IF tokens_to_add > 0
        THEN [tokens |-> IF rate_config.burst_limit < sum
                           THEN rate_config.burst_limit ELSE sum,
              last_refill |-> current_time]
        ELSE bucket

\* a new bucket: tokens = burst_limit, last_refill = time.time()
NewBucketPerMinute(rate_config, current_time) ==
    [tokens |-> rate_config.requests_per_minute, last_refill |-> current_time]
NewBucket(rate_config, current_time) ==
    [tokens |-> rate_config.burst_limit, last_refill |-> current_time]

\* if bucket['tokens'] >= request_count
HasTokensStrict(bucket, request_count) == bucket.tokens > request_count
HasTokens(bucket, request_count) == bucket.tokens >= request_count

\* is_allowed: the limiter afterwards, the verdict and the info returned
is_allowed(B, lastCleanup, current_time, identifier, endpoint, request_count) ==
    LET c == cleanup_expired_buckets(B, lastCleanup, current_time)
        rate_config == get_rate_config(endpoint)
        bucket_key == get_bucket_key(identifier, endpoint)
        isNew == bucket_key \notin DOMAIN c.buckets
        bucket0 == IF isNew THEN NewBucket(rate_config, current_time)
                   ELSE c.buckets[bucket_key]
        bucket == refill_bucket(bucket0, rate_config, current_time)
        allowed == HasTokens(bucket, request_count)
        bucket2 == IF allowed THEN [bucket EXCEPT !.tokens = @ - request_count] ELSE bucket
        retry_after == 60 - (current_time - bucket.last_refill)
    IN  [buckets |-> [k \in DOMAIN c.buckets \cup {bucket_key} |->
                        IF k = bucket_key THEN bucket2 ELSE c.buckets[k]],
         last_cleanup |-> c.last_cleanup,
         allowed |-> allowed,
         isNew |-> isNew,
         remaining |-> IF allowed THEN bucket2.tokens ELSE 0,
         reset_time |-> bucket.last_refill + 60,
         limit |-> rate_config.requests_per_minute,
         retry_after |-> IF allowed THEN 0 ELSE IF retry_after > 1 THEN retry_after ELSE 1]

----------------------------------------------------------------------------
(* Inputs *)

AliceX == <<"a", "@", "x", ".", "c", "o">>
AliceXUpper == <<"A", "@", "x", ".", "c", "o">>
AliceXSpace == <<"A", "@", "x", ".", "c", "o", " ">>
AliceY == <<"a", "@", "y", ".", "c", "o">>
BobX == <<"b", "@", "x", ".", "c", "o">>
Bob == <<"b", "o", "b">>
GoodPassword == "correctpassword"
PasswordInputs == {GoodPassword, "wrongpassword"}
\* the tokens a caller can present: those issued so far, and 0 for none
\* (no Authorization header; for a direct call, a text that is no token)
Credentials == 0 .. nextToken - 1

NoResp ==
    [op |-> "", status |-> 0, detail |-> "", email |-> <<>>, password |-> "",
     token |-> 0, ok |-> FALSE, count |-> 0, usersBefore |-> 0,
     attemptsBefore |-> 0, lockBefore |-> NULL, again |-> FALSE,
     challenge |-> "", request |-> NULL, tier |-> "",
     logged |-> <<>>, fault |-> ""]

\* a request that is not running
Procs == 1 .. MaxProcs
IdleProc ==
    [pc |-> "idle", UserId |-> 0, CurrentAttempts |-> 0, token |-> 0, usable |-> FALSE,
     tokens |-> 0]

NoRateResp ==
    [key |-> <<>>, allowed |-> FALSE, status |-> 0, isNew |-> FALSE, remaining |-> 0,
     retry_after |-> 0, sinceRefill |-> 0, sinceEmptied |-> NULL, nth |-> 0]

Init ==
    /\ now = StartHour
    /\ tz \in TzOffsets
    /\ ticks = 0
    /\ users = <<>>
    /\ sessions = {}
    /\ nextToken = 1
    /\ loggedOut = {}
    /\ resp = NoResp
    /\ time = 0
    /\ rticks = 0
    /\ buckets = <<>>
    /\ last_cleanup = 0
    /\ emptied = <<>>
    /\ touched = <<>>
    /\ burstChecks = <<>>
    /\ rresp = NoRateResp
    /\ procs = [p \in Procs |-> IdleProc]
    /\ completed = 0

\* the clock advances
Tick(Steps) ==
    /\ ticks < MaxTicks
    /\ \E d \in Steps : now' = now + d
    /\ ticks' = ticks + 1
    /\ resp' = NoResp
    /\ UNCHANGED <<rateVars, concVars>> /\ UNCHANGED <<tz, users, sessions, nextToken, loggedOut>>

----------------------------------------------------------------------------
(* MainAPI handlers *)

\* What goes wrong in the store during a request: nothing; Connect() returns
\* False; the SELECT of ExecuteQuery raises sqlite3.Error; the INSERT of
\* LogUserActivity raises
NoFault == ""
StoreFaults == {"connect", "query", "activity"}

\* ExecuteQuery logs the sqlite3.Error and returns [], so GetUserByEmail
\* returns None and AuthenticateUser returns None
AuthenticateUserOn(U, Email, Password, localNow, fault) ==
    IF fault = "query" THEN [users |-> U, result |-> "none", Id |-> 0]
    ELSE AuthenticateUser(U, Email, Password, localNow)

\* LogUserActivity: the rows inserted into UserActivity; an exception of the
\* INSERT is caught and logged, nothing is inserted
LogUserActivity(UserId, ActivityType, fault) ==
    IF fault = "activity" THEN <<>>
    ELSE <<[UserId |-> UserId, ActivityType |-> ActivityType]>>

\* does LogUserActivity raise to its caller?  (except Exception: no)
ActivityRaisesUncaught(fault) == fault = "activity"
ActivityRaises(fault) == FALSE

\* POST /api/auth/register: 422 from the request model, else CreateUser.
\* The outcomes: the table afterwards and the response.
RegisterOutcomes(U, req, fault) ==
    LET email == ValidateEmail(req.email)
        r == [NoResp EXCEPT !.op = "register", !.email = email, !.request = req,
                            !.fault = fault, !.usersBefore = Len(U)]
    IN  IF ~ValidRegistration(req)
        THEN {[users |-> U, resp |-> [r EXCEPT !.status = 422, !.detail = "validation error"]]}
        ELSE IF fault = "connect"
        THEN {[users |-> U,
               resp |-> [r EXCEPT !.status = 503, !.detail = "Database connection failed"]]}
        ELSE {[users |-> o.users,
               resp |->
                 IF o.error = "" /\ (fault = "query" \/ ActivityRaises(fault))
                 \* the row is inserted; GetUserByEmail finds nothing, CreateUser returns None
                 THEN [r EXCEPT !.status = 500,
                         !.detail = IF fault = "query" THEN "Failed to create user account"
                                    ELSE "Registration failed"]
                 ELSE [r EXCEPT
                         !.status = CASE o.error = "" -> 200
                                      [] o.error \in {"email_exists", "username_exists"} -> 409
                                      [] OTHER -> 400,
                         !.detail = CASE o.error = "email_exists" -> "Email address already registered"
                                      [] o.error = "username_exists" -> "Username already taken"
                                      [] o.error = "" -> "Registration successful"
                                      [] OTHER -> "Registration failed",
                         !.tier = IF o.error = "" THEN o.users[o.Id].SubscriptionTier ELSE "",
                         !.ok = (o.error = ""),
                         \* CreateUser logs user_registered, then the handler does
                         !.logged = IF o.error # "" THEN <<>>
                                    ELSE LogUserActivity(o.Id, "user_registered", fault)
                                         \o LogUserActivity(o.Id, "user_registered", fault)]] :
              o \in CreateUser(U, email, req.password, req.username, req.subscription_tier)}

RegisterRequestFaults(Requests, Faults) ==
    \E req \in Requests, fault \in Faults :
      \E o \in RegisterOutcomes(users, req, fault) :
          /\ Len(o.users) <= MaxUsers
          /\ users' = o.users
          /\ resp' = o.resp
          /\ UNCHANGED <<rateVars, concVars>> /\ UNCHANGED <<now, tz, ticks, sessions, nextToken, loggedOut>>

RegisterRequest(Requests) == RegisterRequestFaults(Requests, {NoFault})

\* registrations with the password and the tier of the test fixture
Registrations(Emails, Usernames) ==
    {[email |-> e, username |-> n, password |-> GoodPassword,
      subscription_tier |-> "free"] : e \in Emails, n \in Usernames}
RegisterUser(Emails, Usernames) == RegisterRequest(Registrations(Emails, Usernames))

\* POST /api/auth/login: the tables afterwards and the response
LoginOutcome(U, S, token, raw, pw, fault, localNow, utcNow) ==
    LET email == ValidateEmail(raw)
        a == AuthenticateUserOn(U, email, pw, localNow, fault)
        id == GetUserByEmail(U, email)
        r == [NoResp EXCEPT !.op = "login", !.email = email, !.password = pw,
                !.fault = fault,
                !.attemptsBefore = IF id = 0 THEN 0 ELSE U[id].LoginAttempts,
                !.lockBefore = IF id = 0 THEN NULL ELSE U[id].AccountLockedUntil]
        failed == [r EXCEPT !.status = 500, !.detail = "Login failed"]
    IN  IF fault = "connect"
        THEN [users |-> U, sessions |-> S, created |-> FALSE,
              resp |-> [r EXCEPT !.status = 503, !.detail = "Database connection failed"]]
        ELSE CASE a.result = "none" ->
                    [users |-> a.users, sessions |-> S, created |-> FALSE,
                     resp |-> IF ActivityRaises(fault) THEN failed
                              ELSE [r EXCEPT !.status = 401,
                                       !.detail = "Invalid email or password",
                                       !.logged = LogUserActivity(0, "login_failed", fault)]]
               [] a.result = "account_locked" ->
                    [users |-> a.users, sessions |-> S, created |-> FALSE,
                     resp |-> [r EXCEPT !.status = 423,
                         !.detail = "Account temporarily locked due to failed login attempts"]]
               [] OTHER ->
                    \* AuthenticateUser logs user_login, then the handler does
                    IF ActivityRaises(fault)
                    THEN [users |-> U, sessions |-> S, created |-> FALSE, resp |-> failed]
                    ELSE [users |-> a.users,
                          sessions |-> CreateUserSession(S, a.Id, token, localNow, utcNow),
                          created |-> TRUE,
                          resp |-> [r EXCEPT !.status = 200, !.ok = TRUE, !.token = token,
                                      !.detail = "Login successful",
                                      !.logged = LogUserActivity(a.Id, "user_login", fault)
                                           \o LogUserActivity(a.Id, "user_login", fault)]]

\* a login request, while secrets.token_urlsafe has tokens left out of Tokens
LoginUserFaults(Emails, Passwords, Tokens, Faults) ==
    \E raw \in Emails, pw \in Passwords, fault \in Faults :
      LET o == LoginOutcome(users, sessions, nextToken, raw, pw, fault, LocalNow, now)
      IN  /\ o.created => nextToken <= Tokens
          /\ users' = o.users
          /\ sessions' = o.sessions
          /\ nextToken' = IF o.created THEN nextToken + 1 ELSE nextToken
          /\ resp' = o.resp
          /\ UNCHANGED <<rateVars, concVars>> /\ UNCHANGED <<now, tz, ticks, loggedOut>>

LoginUserWithin(Emails, Passwords, Tokens) ==
    LoginUserFaults(Emails, Passwords, Tokens, {NoFault})

LoginUser(Emails, Passwords) == LoginUserWithin(Emails, Passwords, MaxSessions)

\* RequireAuth: 401 with headers={"WWW-Authenticate": "Bearer"}
UnauthorizedNoChallenge(op, token) ==
    [NoResp EXCEPT !.op = op, !.token = token, !.status = 401,
                   !.detail = "Authentication required"]
Unauthorized(op, token) ==
    [NoResp EXCEPT !.op = op, !.token = token, !.status = 401,
                   !.detail = "Authentication required", !.challenge = "Bearer"]

\* GetCurrentUser: Connect() False returns None; ValidateSession returns None
\* when ExecuteQuery caught an sqlite3.Error
ValidateSessionOn(S, U, token, utcNow, fault) ==
    IF fault \in {"connect", "query"} THEN [sessions |-> S, ok |-> FALSE, UserId |-> 0]
    ELSE ValidateSession(S, U, token, utcNow)

\* POST /api/auth/logout  (RequireAuth, then DatabaseManager.LogoutUser):
\* the table afterwards, whether LogoutUser ran, and the response
LogoutOutcome(S, U, token, fault, utcNow) ==
    LET v == ValidateSessionOn(S, U, token, utcNow, fault)
    IN  IF token = 0 \/ ~v.ok
        THEN [sessions |-> S, done |-> FALSE,
              resp |-> [Unauthorized("logout", token) EXCEPT !.fault = fault]]
        ELSE [sessions |-> LogoutUser(v.sessions, token), done |-> TRUE,
              resp |-> IF ActivityRaises(fault)
                       THEN [NoResp EXCEPT !.op = "logout", !.token = token, !.fault = fault,
                               !.status = 500, !.detail = "Logout failed"]
                       ELSE [NoResp EXCEPT !.op = "logout", !.token = token, !.fault = fault,
                               !.status = 200, !.ok = TRUE, !.detail = "Logout successful",
                               !.logged = LogUserActivity(v.UserId, "user_logout", fault)]]

LogoutUserFaults(Faults) ==
    \E token \in Credentials, fault \in Faults :
      LET o == LogoutOutcome(sessions, users, token, fault, now)
      IN  /\ sessions' = o.sessions
          /\ loggedOut' = IF o.done THEN loggedOut \cup {token} ELSE loggedOut
          /\ resp' = [o.resp EXCEPT !.again = o.done /\ token \in loggedOut]
          /\ UNCHANGED <<rateVars, concVars>> /\ UNCHANGED <<now, tz, ticks, users, nextToken>>

LogoutUserEndpoint == LogoutUserFaults({NoFault})

\* GET /api/auth/profile  (RequireAuth, then GetUserById)
GetUserProfileFaults(Faults) ==
    \E token \in Credentials, fault \in Faults :
      LET v == ValidateSessionOn(sessions, users, token, now, fault)
      IN  /\ IF token = 0 \/ ~v.ok
             THEN /\ resp' = [Unauthorized("profile", token) EXCEPT !.fault = fault]
                  /\ UNCHANGED sessions
             ELSE /\ sessions' = v.sessions
                  /\ resp' = [NoResp EXCEPT !.op = "profile", !.token = token, !.ok = TRUE,
                                !.fault = fault,
                                !.status = IF GetUserById(users, v.UserId) = 0 THEN 404 ELSE 200,
                                !.email = users[v.UserId].Email]
          /\ UNCHANGED <<rateVars, concVars>> /\ UNCHANGED <<now, tz, ticks, users, nextToken, loggedOut>>

GetUserProfile == GetUserProfileFaults({NoFault})

\* GET /api/auth/stats  (RequireAuth, then GetUserStatistics)
GetUserStats ==
    \E token \in Credentials :
      LET v == ValidateSession(sessions, users, token, now)
          Stats == GetUserStatistics(v.sessions, users, now)
      IN  /\ IF token = 0 \/ ~v.ok
             THEN /\ resp' = Unauthorized("stats", token)
                  /\ UNCHANGED sessions
             ELSE /\ sessions' = v.sessions
                  /\ resp' = [NoResp EXCEPT !.op = "stats", !.token = token, !.ok = TRUE,
                                !.status = 200, !.count = Stats.ActiveSessions,
                                !.usersBefore = Stats.TotalUsers]
          /\ UNCHANGED <<rateVars, concVars>> /\ UNCHANGED <<now, tz, ticks, users, nextToken, loggedOut>>

\* POST /api/auth/cleanup-sessions  (RequireAuth, then CleanupExpiredSessions)
CleanupExpiredSessionsEndpoint ==
    \E token \in Credentials :
      LET v == ValidateSession(sessions, users, token, now)
          c == CleanupExpiredSessions(v.sessions, now)
      IN  /\ IF token = 0 \/ ~v.ok
             THEN /\ resp' = Unauthorized("cleanup", token)
                  /\ UNCHANGED sessions
             ELSE /\ sessions' = c.sessions
                  /\ resp' = [NoResp EXCEPT !.op = "cleanup", !.token = token, !.ok = TRUE,
                                !.status = 200, !.count = c.CleanedCount]
          /\ UNCHANGED <<rateVars, concVars>> /\ UNCHANGED <<now, tz, ticks, users, nextToken, loggedOut>>

----------------------------------------------------------------------------
(* Direct calls of the session methods of DatabaseManager *)

CallValidateSession ==
    \E token \in Credentials :
      LET v == ValidateSession(sessions, users, token, now)
      IN  /\ sessions' = v.sessions
          /\ resp' = [NoResp EXCEPT !.op = "ValidateSession", !.token = token, !.ok = v.ok]
          /\ UNCHANGED <<rateVars, concVars>> /\ UNCHANGED <<now, tz, ticks, users, nextToken, loggedOut>>

CallLogoutUser ==
    \E token \in Credentials :
      /\ sessions' = LogoutUser(sessions, token)
      /\ loggedOut' = loggedOut \cup {token}
      /\ resp' = [NoResp EXCEPT !.op = "LogoutUser", !.token = token, !.ok = TRUE,
                                !.again = (token \in loggedOut)]
      /\ UNCHANGED <<rateVars, concVars>> /\ UNCHANGED <<now, tz, ticks, users, nextToken>>

CallCleanupExpiredSessions ==
    LET c == CleanupExpiredSessions(sessions, now)
    IN  /\ sessions' = c.sessions
        /\ resp' = [NoResp EXCEPT !.op = "CleanupExpiredSessions", !.ok = TRUE,
                                  !.count = c.CleanedCount]
        /\ UNCHANGED <<rateVars, concVars>> /\ UNCHANGED <<now, tz, ticks, users, nextToken, loggedOut>>

----------------------------------------------------------------------------
(* Spec: the session methods.  One account, correct password. *)

Next ==
    \/ Tick(TickSteps)
    \/ RegisterUser({AliceX}, {NULL})
    \/ LoginUser({AliceX}, {GoodPassword})
    \/ LogoutUserEndpoint
    \/ GetUserProfile
    \/ GetUserStats
    \/ CleanupExpiredSessionsEndpoint
    \/ CallValidateSession
    \/ CallLogoutUser
    \/ CallCleanupExpiredSessions

Spec == Init /\ [][Next]_vars

(* SpecLockout: failed and successful logins on registered accounts *)

NextLockout ==
    \/ Tick({LOCKOUT_DURATION})
    \/ RegisterUser({AliceX, BobX}, {NULL})
    \/ LoginUser({AliceXSpace, BobX, AliceY}, PasswordInputs)

SpecLockout == Init /\ [][NextLockout]_vars

(* SpecRegister: registrations *)

NextRegister ==
    \/ RegisterUser({AliceX, AliceXUpper, AliceY, BobX}, {NULL, Bob})
    \/ LoginUser({AliceX, BobX}, {GoodPassword})

SpecRegister == Init /\ [][NextRegister]_vars

(* SpecValidate: registration bodies, well formed and not *)

Repeat(c, n) == [i \in 1 .. n |-> c]
NoAtSign == <<"a", "-", "x", ".", "c", "o">>
ShortTld == <<"a", "@", "x", ".", "c">>
EmailInputs == {AliceX, BobX, AliceXUpper, NoAtSign, ShortTld, AliceXSpace}
PasswordLengths ==
    {password_min_length - 1, password_min_length,
     password_max_length, password_max_length + 1}
TierInputs == SubscriptionTiers \cup {"invalid_tier"}
RegistrationBodies ==
    {[email |-> e, username |-> NULL, password |-> Repeat("p", n),
      subscription_tier |-> t] :
        e \in EmailInputs, n \in PasswordLengths, t \in TierInputs}

NextValidate == RegisterRequest(RegistrationBodies)

SpecValidate == Init /\ [][NextValidate]_vars

----------------------------------------------------------------------------
(* SpecRace: failed logins in flight at the same time.  Every request has  *)
(* its own DatabaseManager and connection (GetDatabase), in autocommit     *)
(* mode, so each SQL statement is one step and the statements of two       *)
(* requests interleave.                                                    *)

InFlight == {p \in Procs : procs[p].pc # "idle"}

\* AuthenticateUser with a wrong password, up to the call of
\* IncrementLoginAttempts: GetUserByEmail, the lock check, PwdContext.verify
BeginFailedLogin(p) ==
    LET id == GetUserByEmail(users, AliceX)
        r == [NoResp EXCEPT !.op = "login", !.email = AliceX, !.password = "wrongpassword",
                !.attemptsBefore = IF id = 0 THEN 0 ELSE users[id].LoginAttempts,
                !.lockBefore = IF id = 0 THEN NULL ELSE users[id].AccountLockedUntil]
    IN  /\ procs[p].pc = "idle"
        /\ completed + Cardinality(InFlight) < MaxLogins
        /\ IF id = 0
           THEN /\ resp' = [r EXCEPT !.status = 401, !.detail = "Invalid email or password"]
                /\ UNCHANGED procs
           ELSE IF AccountIsLocked(users[id], LocalNow)
           THEN /\ resp' = [r EXCEPT !.status = 423,
                      !.detail = "Account temporarily locked due to failed login attempts"]
                /\ UNCHANGED procs
           ELSE /\ procs' = [procs EXCEPT ![p] = [IdleProc EXCEPT !.pc = "inc_select",
                                                                  !.UserId = id]]
                /\ resp' = NoResp
        /\ UNCHANGED <<rateVars, completed>>
        /\ UNCHANGED <<now, tz, ticks, users, sessions, nextToken, loggedOut>>

\* IncrementLoginAttempts: the SELECT
IncSelect(p) ==
    /\ procs[p].pc = "inc_select"
    /\ procs' = [procs EXCEPT ![p].pc = "inc_update",
                   ![p].CurrentAttempts = IncrementSelect(users, procs[p].UserId)]
    /\ resp' = NoResp
    /\ UNCHANGED <<rateVars, completed>>
    /\ UNCHANGED <<now, tz, ticks, users, sessions, nextToken, loggedOut>>

\* IncrementLoginAttempts: the UPDATE and commit; AuthenticateUser returns
\* None and LoginUser answers 401
IncUpdate(p) ==
    /\ procs[p].pc = "inc_update"
    /\ users' = IncrementUpdate(users, procs[p].UserId, procs[p].CurrentAttempts, LocalNow)
    /\ procs' = [procs EXCEPT ![p] = IdleProc]
    /\ completed' = completed + 1
    /\ resp' = [NoResp EXCEPT !.op = "login", !.email = AliceX,
                  !.password = "wrongpassword", !.status = 401,
                  !.detail = "Invalid email or password",
                  !.attemptsBefore = procs[p].CurrentAttempts - 1]
    /\ UNCHANGED rateVars
    /\ UNCHANGED <<now, tz, ticks, sessions, nextToken, loggedOut>>

NextRace ==
    \/ RegisterUser({AliceX}, {NULL})
    \/ \E p \in Procs : BeginFailedLogin(p)
    \/ \E p \in Procs : IncSelect(p)
    \/ \E p \in Procs : IncUpdate(p)

SpecRace == Init /\ [][NextRace]_vars

----------------------------------------------------------------------------
(* SpecSessionRace: ValidateSession in flight while sessions are revoked   *)
(* and cleaned up.  LogoutUser and CleanupExpiredSessions are one          *)
(* statement each; ValidateSession is a SELECT and then an UPDATE.         *)

\* ValidateSession: the SELECT; None when it finds no row
VsSelect(p) ==
    \E token \in Credentials :
      LET Results == ValidRows(sessions, users, token, now)
      IN  /\ procs[p].pc = "idle"
          /\ IF Results = {}
             THEN /\ resp' = [NoResp EXCEPT !.op = "ValidateSession", !.token = token]
                  /\ UNCHANGED procs
             ELSE /\ procs' = [procs EXCEPT ![p] =
                         [IdleProc EXCEPT !.pc = "vs_update", !.token = token,
                            !.UserId = (CHOOSE r \in Results : TRUE).UserId,
                            !.usable = \E r \in Results :
                                 r.IsActive /\ LocalNow < FromIsoFormat(r.ExpiresAt)]]
                  /\ resp' = NoResp
          /\ UNCHANGED <<rateVars, completed>>
          /\ UNCHANGED <<now, tz, ticks, users, sessions, nextToken, loggedOut>>

\* ValidateSession: the UPDATE of LastAccessAt, commit, return the row read
VsUpdate(p) ==
    /\ procs[p].pc = "vs_update"
    /\ sessions' = TouchSession(sessions, procs[p].token, now)
    /\ procs' = [procs EXCEPT ![p] = IdleProc]
    /\ resp' = [NoResp EXCEPT !.op = "ValidateSession", !.token = procs[p].token,
                              !.ok = TRUE]
    /\ UNCHANGED <<rateVars, completed>>
    /\ UNCHANGED <<now, tz, ticks, users, nextToken, loggedOut>>

NextSessionRace ==
    \/ Tick({SESSION_EXPIRY})
    \/ RegisterUser({AliceX}, {NULL})
    \/ LoginUser({AliceX}, {GoodPassword})
    \/ CallLogoutUser
    \/ CallCleanupExpiredSessions
    \/ \E p \in Procs : VsSelect(p)
    \/ \E p \in Procs : VsUpdate(p)

SpecSessionRace == Init /\ [][NextSessionRace]_vars

(* SpecSessionCap: one free-tier account logging in once more than its tier's
   concurrent_sessions *)

SessionsOverCap == concurrent_sessions("free") + 1

NextSessionCap ==
    \/ Tick({1})
    \/ RegisterUser({AliceX}, {NULL})
    \/ LoginUserWithin({AliceX}, {GoodPassword}, SessionsOverCap)
    \/ CallLogoutUser

SpecSessionCap == Init /\ [][NextSessionCap]_vars

(* SpecDeactivated: accounts whose IsActive column an administrator clears *)

\* UPDATE Users SET IsActive = FALSE WHERE Id = ?  (no method of the core
\* writes the column; the statement comes from outside)
DeactivateUser ==
    \E id \in DOMAIN users :
      /\ users[id].IsActive
      /\ users' = [users EXCEPT ![id].IsActive = FALSE]
      /\ resp' = [NoResp EXCEPT !.op = "deactivate", !.ok = TRUE]
      /\ UNCHANGED <<rateVars, concVars>> /\ UNCHANGED <<now, tz, ticks, sessions, nextToken, loggedOut>>

NextDeactivated ==
    \/ Tick({LOCKOUT_DURATION})
    \/ RegisterUser({AliceX}, {NULL})
    \/ LoginUser({AliceX}, PasswordInputs)
    \/ GetUserProfile
    \/ DeactivateUser

SpecDeactivated == Init /\ [][NextDeactivated]_vars

(* SpecFaults: requests during which the store fails *)

FaultEmails == {AliceX, BobX}

NextFaults ==
    \/ RegisterRequestFaults(Registrations({AliceX}, {NULL}), {NoFault} \cup StoreFaults)
    \/ LoginUserFaults(FaultEmails, PasswordInputs, MaxSessions, {NoFault} \cup StoreFaults)
    \/ LogoutUserFaults({NoFault} \cup StoreFaults)
    \/ GetUserProfileFaults({NoFault} \cup StoreFaults)

SpecFaults == Init /\ [][NextFaults]_vars

----------------------------------------------------------------------------
(* SpecRate: the rate limiter behind the CheckRateLimit dependency *)

MaxRateTicks == 2

RateRequests ==
    {<<"10.0.0.1", RegisterPath>>, <<"10.0.0.1", LoginPath>>}

SecondsPerToken(endpoint) == 60 \div get_rate_config(endpoint).requests_per_minute
RateSteps ==
    {1, SecondsPerToken(RegisterPath) - 1, StaleAfter + 1}
      \cup {SecondsPerToken(r[2]) : r \in RateRequests}

RateTickBy(Steps) ==
    /\ rticks < MaxRateTicks
    /\ \E d \in Steps : time' = time + d
    /\ rticks' = rticks + 1
    /\ burstChecks' = [k \in DOMAIN buckets |-> 0]
    /\ rresp' = NoRateResp
    /\ UNCHANGED <<buckets, last_cleanup, emptied, touched>>
    /\ UNCHANGED <<authVars, concVars>>

RateTick == RateTickBy(RateSteps)

\* CheckRateLimit: is_allowed(client_ip, path); 429 when it is not allowed
CheckRateLimitOn(Requests, Track) ==
    \E r \in Requests :
      LET a == is_allowed(buckets, last_cleanup, time, r[1], r[2], 1)
          key == get_bucket_key(r[1], r[2])
      IN  /\ buckets' = a.buckets
          /\ last_cleanup' = a.last_cleanup
          /\ emptied' = [k \in DOMAIN a.buckets |->
                IF k = key
                  THEN (IF a.allowed /\ a.buckets[k].tokens = 0 THEN <<time>>
                        ELSE IF a.allowed \/ a.isNew THEN NULL ELSE emptied[k])
                  ELSE emptied[k]]
          /\ touched' = IF ~Track THEN touched
                        ELSE [k \in DOMAIN touched \cup {key} |->
                                IF k = key THEN time ELSE touched[k]]
          /\ burstChecks' = [k \in DOMAIN a.buckets |->
                IF k # key THEN burstChecks[k]
                ELSE IF a.isNew THEN 1
                ELSE IF burstChecks[k] = 0 THEN 0
                ELSE IF burstChecks[k] > get_rate_config(r[2]).burst_limit
                  THEN burstChecks[k] ELSE burstChecks[k] + 1]
          /\ rresp' = [key |-> key, allowed |-> a.allowed,
                       nth |-> IF a.isNew THEN 1
                               ELSE IF burstChecks[key] = 0 THEN 0 ELSE burstChecks[key] + 1,
                       status |-> IF a.allowed THEN 0 ELSE 429,
                       isNew |-> a.isNew, remaining |-> a.remaining,
                       retry_after |-> a.retry_after,
                       sinceRefill |-> IF a.isNew THEN 0 ELSE time - buckets[key].last_refill,
                       sinceEmptied |-> IF ~a.isNew /\ emptied[key] # NULL
                                          THEN <<time - emptied[key][1]>> ELSE NULL]
          /\ UNCHANGED <<time, rticks>>
          /\ UNCHANGED <<authVars, concVars>>

CheckRateLimit == CheckRateLimitOn(RateRequests, FALSE)

NextRate == RateTick \/ CheckRateLimit

SpecRate == Init /\ [][NextRate]_vars

(* SpecRateClass: one caller on two endpoints of the download class *)

PdfPath(book) == BooksPath \o <<"/", book, "/", "pdf">>
ClassRequests == {<<"10.0.0.1", PdfPath("1")>>, <<"10.0.0.1", PdfPath("2")>>}

NextRateClass == RateTick \/ CheckRateLimitOn(ClassRequests, FALSE)

SpecRateClass == Init /\ [][NextRateClass]_vars

(* SpecBucketRace: is_allowed called by several threads on one bucket.  Only
   the sweep takes cleanup_lock; the test of bucket['tokens'] and the
   read and the write of bucket['tokens'] -= request_count are separate
   steps of a thread. *)

RaceKey == get_bucket_key("10.0.0.1", RegisterPath)

\* is_allowed up to "if bucket['tokens'] >= request_count"
IsAllowedCheck(p) ==
    LET a == is_allowed(buckets, last_cleanup, time, "10.0.0.1", RegisterPath, 0)
    IN  /\ procs[p].pc = "idle"
        /\ buckets' = a.buckets
        /\ last_cleanup' = a.last_cleanup
        /\ IF HasTokens(a.buckets[RaceKey], 1)
           THEN /\ procs' = [procs EXCEPT ![p].pc = "ia_load"]
                /\ rresp' = NoRateResp
           ELSE /\ UNCHANGED procs
                /\ rresp' = [NoRateResp EXCEPT !.key = RaceKey, !.status = 429]
        /\ UNCHANGED <<time, rticks, emptied, touched, burstChecks, completed, authVars>>

\* bucket['tokens'] -= request_count: the read
IsAllowedLoad(p) ==
    /\ procs[p].pc = "ia_load"
    /\ procs' = [procs EXCEPT ![p].pc = "ia_store", ![p].tokens = buckets[RaceKey].tokens]
    /\ rresp' = NoRateResp
    /\ UNCHANGED <<time, rticks, buckets, last_cleanup, emptied, touched, burstChecks>>
    /\ UNCHANGED <<completed, authVars>>

\* bucket['tokens'] -= request_count: the write; return True
IsAllowedStore(p) ==
    /\ procs[p].pc = "ia_store"
    /\ buckets' = [buckets EXCEPT ![RaceKey].tokens = procs[p].tokens - 1]
    /\ procs' = [procs EXCEPT ![p] = IdleProc]
    /\ rresp' = [NoRateResp EXCEPT !.key = RaceKey, !.allowed = TRUE,
                                   !.remaining = procs[p].tokens - 1]
    /\ UNCHANGED <<time, rticks, last_cleanup, emptied, touched, burstChecks>>
    /\ UNCHANGED <<completed, authVars>>

NextBucketRace ==
    \/ RateTickBy({SecondsPerToken(RegisterPath)})
    \/ \E p \in Procs : IsAllowedCheck(p)
    \/ \E p \in Procs : IsAllowedLoad(p)
    \/ \E p \in Procs : IsAllowedStore(p)

SpecBucketRace == Init /\ [][NextBucketRace]_vars

(* SpecSweep: checks around the staleness window of _cleanup_expired_buckets,
   with the time of the last check of every bucket key on record *)

SweepSteps == {1, SecondsPerToken(RegisterPath) - 1, StaleAfter - 1, StaleAfter + 1}

NextSweep == RateTickBy(SweepSteps) \/ CheckRateLimitOn(RateRequests, TRUE)

SpecSweep == Init /\ [][NextSweep]_vars

----------------------------------------------------------------------------
(* Properties *)

SessionOf(token) == {s \in sessions : s.SessionToken = token}

\* the session is active and the clock is strictly before its expiry
Usable(s) == s.IsActive /\ LocalNow < FromIsoFormat(s.ExpiresAt)

\* C1: ValidateSession(t) succeeds if and only if a session row with token t
\* exists, is active and the current time is strictly before its expiry.
C1_ValidateIffUsable ==
    resp.op = "ValidateSession" =>
        (resp.ok <=> \E s \in SessionOf(resp.token) : Usable(s))

LoginTarget == GetUserByEmail(users, resp.email)
LockInForceBefore ==
    resp.lockBefore # NULL /\ LocalNow < FromIsoFormat(resp.lockBefore)

\* every failed login below the threshold returns 401 and counts; the one
\* that reaches MAX_LOGIN_ATTEMPTS sets the lock for LOCKOUT_DURATION
C2_FailuresCountAndLock ==
    (/\ resp.op = "login" /\ LoginTarget # 0
     /\ resp.password # GoodPassword
     /\ resp.attemptsBefore < MAX_LOGIN_ATTEMPTS)
    => /\ resp.status = 401
       /\ users[LoginTarget].LoginAttempts = resp.attemptsBefore + 1
       /\ (users[LoginTarget].LoginAttempts = MAX_LOGIN_ATTEMPTS
             <=> users[LoginTarget].AccountLockedUntil # NULL)
       /\ (users[LoginTarget].AccountLockedUntil # NULL =>
             FromIsoFormat(users[LoginTarget].AccountLockedUntil)
                = LocalNow + LOCKOUT_DURATION)

\* C2: with MAX_LOGIN_ATTEMPTS = 5, five consecutive failed logins each
\* return 401 and the fifth locks the account; the attempt that follows them
\* while that lock is in force returns 423 whatever the password, and never
\* success.
C2_SixthAttemptLocked ==
    /\ C2_FailuresCountAndLock
    /\ (resp.op = "login" /\ LoginTarget # 0
          /\ resp.attemptsBefore = MAX_LOGIN_ATTEMPTS /\ LockInForceBefore)
       => resp.status = 423

C2_Witness ==
    /\ resp.op = "login" /\ resp.status = 423
    /\ resp.password = GoodPassword
    /\ resp.attemptsBefore = MAX_LOGIN_ATTEMPTS

\* C3: once LogoutUser ran for token t, ValidateSession(t) fails and every
\* protected endpoint answers 401 for t from then on; LogoutUser(t) called
\* again returns success and the session stays revoked.
C3_LogoutIsFinal ==
    /\ \A s \in sessions : s.SessionToken \in loggedOut => ~s.IsActive
    /\ (resp.op = "ValidateSession" /\ resp.token \in loggedOut) => ~resp.ok
    /\ (resp.op \in {"profile", "cleanup"} /\ resp.token \in loggedOut)
          => resp.status = 401
    /\ (resp.op = "logout" /\ resp.status # 401) => ~resp.again
    /\ resp.op = "LogoutUser" => resp.ok

C3_Witness ==
    /\ resp.op = "profile" /\ resp.status = 401
    /\ resp.token \in loggedOut
    /\ \E s \in SessionOf(resp.token) : LocalNow < FromIsoFormat(s.ExpiresAt)

\* C4: the stored emails are pairwise distinct up to letter case, and a
\* registration whose email equals a stored one up to case gets the 409
\* "already registered" conflict and adds no user.
C4_EmailConflict ==
    /\ \A i, j \in DOMAIN users :
          i # j => Lower(users[i].Email) # Lower(users[j].Email)
    /\ (/\ resp.op = "register"
        /\ \E i \in 1 .. resp.usersBefore : Lower(users[i].Email) = Lower(resp.email))
       => /\ resp.status = 409
          /\ resp.detail = "Email address already registered"
          /\ Len(users) = resp.usersBefore

\* C5: a successful login leaves the account with counter 0 and no
\* lock-expiry, whatever they were before.
C5_SuccessResets ==
    (resp.op = "login" /\ resp.status = 200) =>
        /\ LoginTarget # 0
        /\ users[LoginTarget].LoginAttempts = 0
        /\ users[LoginTarget].AccountLockedUntil = NULL

C5_Witness ==
    /\ resp.op = "login" /\ resp.status = 200
    /\ resp.attemptsBefore >= MAX_LOGIN_ATTEMPTS
    /\ resp.lockBefore # NULL

\* C6: a login on an account whose lock-expiry is still ahead is answered
\* 423, with a right or a wrong password, and changes neither the Users
\* table (counter, lock-expiry) nor the sessions.
C6_LockedLoginChangesNothing ==
    [][ LET id == GetUserByEmail(users, resp'.email)
        IN  (/\ resp'.op = "login" /\ id # 0
             /\ users[id].AccountLockedUntil # NULL
             /\ LocalNow < FromIsoFormat(users[id].AccountLockedUntil))
            => /\ resp'.status = 423
               /\ resp'.status # 401
               /\ users' = users
               /\ sessions' = sessions
               /\ nextToken' = nextToken ]_vars

C6_Witness ==
    /\ resp.op = "login" /\ resp.status = 423
    /\ resp.password = GoodPassword
    /\ sessions # {}

\* C7: CleanupExpiredSessions removes exactly the sessions whose expiry is
\* before now or that are inactive, returns how many it removed, leaves the
\* other rows as they were, and removes none that ValidateSession accepts.
C7_CleanupExact ==
    [][ resp'.op = "CleanupExpiredSessions" =>
          LET gone == {s \in sessions :
                         FromIsoFormat(s.ExpiresAt) < LocalNow \/ ~s.IsActive}
          IN  /\ sessions' = sessions \ gone
              /\ resp'.count = Cardinality(gone)
              /\ \A s \in gone :
                   ~ValidateSession(sessions, users, s.SessionToken, now).ok ]_vars

BucketBurst(key) == get_rate_config(key[1]).burst_limit
BucketRate(key) == get_rate_config(key[1]).requests_per_minute

\* C8: the token count of every bucket stays within [0, burst_limit].
C8_TokensInRange ==
    \A k \in DOMAIN buckets :
        0 <= buckets[k].tokens /\ buckets[k].tokens <= BucketBurst(k)

\* a check that found the bucket full after a refill
C8_Witness ==
    /\ rresp.allowed /\ ~rresp.isNew
    /\ rresp.sinceRefill * BucketRate(rresp.key) >= 60
    /\ rresp.remaining = BucketBurst(rresp.key) - 1

\* C9 as stated: on a bucket emptied at some instant, no check is allowed
\* before 60/requests_per_minute seconds have passed since then, and the
\* check made exactly that long after is allowed and takes the only token.
C9_NothingBeforeTheWait ==
    rresp.sinceEmptied # NULL =>
        /\ rresp.sinceEmptied[1] * BucketRate(rresp.key) < 60 => ~rresp.allowed
        /\ rresp.sinceEmptied[1] * BucketRate(rresp.key) = 60
              => rresp.allowed /\ rresp.remaining = 0

\* C9 amended: on an emptied bucket a check is allowed exactly when
\* 60/requests_per_minute seconds have passed since the bucket's last
\* refill (which is never after the emptying); the check made exactly
\* 60/requests_per_minute seconds after the emptying is allowed and takes
\* the only token, so the next one at that instant is rejected.
C9_RefillSinceLastRefill ==
    rresp.sinceEmptied # NULL =>
        /\ rresp.allowed <=> rresp.sinceRefill * BucketRate(rresp.key) >= 60
        /\ rresp.sinceRefill >= rresp.sinceEmptied[1]
        /\ rresp.sinceEmptied[1] * BucketRate(rresp.key) = 60
              => rresp.allowed /\ rresp.remaining = 0

C9_Witness ==
    /\ rresp.sinceEmptied # NULL
    /\ rresp.sinceEmptied[1] * BucketRate(rresp.key) = 60
    /\ rresp.allowed /\ rresp.remaining = 0

\* C10: of the checks made on a new key with no time elapsing, the first
\* burst_limit are allowed and the next one is rejected.
C10_BurstThenReject ==
    rresp.nth > 0 => (rresp.allowed <=> rresp.nth <= BucketBurst(rresp.key))

C10_Witness ==
    /\ ~rresp.allowed /\ rresp.status = 429
    /\ rresp.nth = BucketBurst(rresp.key) + 1

ProtectedOps == {"logout", "profile", "stats", "cleanup"}

\* C12: a request to a protected endpoint (logout, profile, stats,
\* cleanup-sessions) without a bearer token, or with a token ValidateSession
\* rejects, gets 401 'Authentication required' with the WWW-Authenticate:
\* Bearer challenge and changes neither the sessions nor the users.
C12_ProtectedNeedsAuth ==
    [][ (/\ resp'.op \in ProtectedOps
         /\ \/ resp'.token = 0
            \/ ~ValidateSession(sessions, users, resp'.token, now).ok)
        => /\ resp'.status = 401
           /\ resp'.detail = "Authentication required"
           /\ resp'.challenge = "Bearer"
           /\ sessions' = sessions
           /\ users' = users
           /\ loggedOut' = loggedOut ]_vars

\* cleanup-sessions refused for a revoked token, the revoked row still there
C12_Witness ==
    /\ resp.op = "cleanup" /\ resp.status = 401 /\ resp.token # 0
    /\ \E s \in SessionOf(resp.token) : ~s.IsActive

\* the body of the last registration is well formed: an email of the shape
\* local@domain.tld, a password of 8 to 100 characters, an accepted tier
WellFormed(req) ==
    /\ EmailPattern(req.email)
    /\ Len(req.password) \in password_min_length .. password_max_length
    /\ req.subscription_tier \in {"free", "scholar", "researcher", "institution"}
Fresh(req) ==
    \A i \in 1 .. resp.usersBefore :
        /\ users[i].Email # ValidateEmail(req.email)
        /\ users[i].Username # SplitAtFirst(ValidateEmail(req.email))

\* C14: a registration with a malformed email, a password shorter than 8 or
\* longer than 100, or an unknown tier is answered 422 and adds no user; a
\* well-formed registration (of an email and username not taken) succeeds,
\* stores the tier asked for and echoes it.
C14_ValidationOrSuccess ==
    (resp.op = "register" /\ resp.request # NULL) =>
        /\ ~WellFormed(resp.request) =>
              (resp.status = 422 /\ Len(users) = resp.usersBefore)
        /\ (WellFormed(resp.request) /\ Fresh(resp.request)) =>
              /\ resp.status = 200
              /\ Len(users) = resp.usersBefore + 1
              /\ resp.tier = resp.request.subscription_tier
              /\ users[Len(users)].SubscriptionTier = resp.request.subscription_tier

C14_Witness ==
    /\ resp.op = "register" /\ resp.status = 200
    /\ resp.tier = "institution"
    /\ Len(resp.request.password) = password_max_length
    /\ resp.usersBefore > 0

\* C15: increments of the failed-attempt counter are atomic: whatever the
\* interleaving, once the failed logins have finished the counter has grown
\* by one for each of them (two concurrent ones raise it by 2, never by 1).
C15_AtomicIncrements ==
    (InFlight = {} /\ users # <<>>) => users[1].LoginAttempts = completed

\* the step in which request p finishes a successful ValidateSession
VsReturns(p) == procs[p].pc = "vs_update" /\ procs'[p].pc = "idle"
\* that step adds no session row and activates none
NoResurrection ==
    /\ {s.SessionToken : s \in sessions'} = {s.SessionToken : s \in sessions}
    /\ \A t \in sessions' : t.IsActive =>
          \E s \in sessions : s.SessionToken = t.SessionToken /\ s.IsActive

\* C16: under any interleaving with LogoutUser and CleanupExpiredSessions,
\* ValidateSession reports success only if the row it read was active and
\* unexpired when read, and its last-access write neither re-creates a
\* deleted session nor re-activates a revoked one.
C16_ValidateUnderInterleaving ==
    [][ \A p \in Procs : VsReturns(p) => (procs[p].usable /\ NoResurrection) ]_vars

\* the last login found a lock-expiry on the account that the clock has
\* reached or passed
LockExpiredBefore ==
    /\ resp.op = "login" /\ LoginTarget # 0
    /\ resp.lockBefore # NULL /\ LocalNow >= FromIsoFormat(resp.lockBefore)

\* C17: on a locked account whose lock-expiry the clock has reached or
\* passed, a login with the correct password succeeds and leaves the
\* account unlocked with counter 0.
C17_LockoutExpires ==
    (LockExpiredBefore /\ resp.password = GoodPassword) =>
        /\ resp.status = 200
        /\ users[LoginTarget].LoginAttempts = 0
        /\ users[LoginTarget].AccountLockedUntil = NULL

\* the login made at the very hour the lock expires
C17_Witness ==
    /\ LockExpiredBefore /\ resp.password = GoodPassword
    /\ LocalNow = FromIsoFormat(resp.lockBefore)
    /\ resp.status = 200 /\ resp.token # 0

\* C18: a failed login made at or after the lock-expiry starts a fresh
\* window: it is answered 401, counts as the first failure and does not
\* lock the account again.
C18_FreshWindowAfterExpiry ==
    (LockExpiredBefore /\ resp.password # GoodPassword) =>
        /\ resp.status = 401
        /\ users[LoginTarget].LoginAttempts < MAX_LOGIN_ATTEMPTS
        /\ ~AccountIsLocked(users[LoginTarget], LocalNow)

\* C13: a login with an email of no user and a login with a registered
\* email and a wrong password on an account that is not locked get the same
\* response, 401 'Invalid email or password', with no token and no header
\* that tells the two apart.
C13_SameFailureResponse ==
    (/\ resp.op = "login"
     /\ \/ LoginTarget = 0
        \/ resp.password # GoodPassword /\ ~LockInForceBefore)
    => resp = [NoResp EXCEPT !.op = "login", !.status = 401,
                             !.detail = "Invalid email or password",
                             !.email = resp.email, !.password = resp.password,
                             !.attemptsBefore = resp.attemptsBefore,
                             !.lockBefore = resp.lockBefore,
                             !.logged = LogUserActivity(0, "login_failed", NoFault)]

\* the wrong password that locks the account is answered like any other
C13_Witness ==
    /\ resp.op = "login" /\ LoginTarget # 0 /\ resp.password # GoodPassword
    /\ resp.status = 401 /\ resp.attemptsBefore = MAX_LOGIN_ATTEMPTS - 1
    /\ \E i \in DOMAIN users : users[i].Email # resp.email

\* the sessions of a user that are active and not yet expired
ActiveSessionsOf(UserId) ==
    {s \in sessions : s.UserId = UserId /\ Usable(s)}

\* C19: the number of active sessions of a user never exceeds the
\* concurrent-session cap of the user's tier (CreateSession revokes the
\* oldest active session first when the cap would be exceeded).
C19_SessionsWithinCap ==
    \A id \in DOMAIN users :
        Cardinality(ActiveSessionsOf(id)) <= concurrent_sessions(users[id].SubscriptionTier)

\* whole seconds after the last refill at which _refill_bucket adds a token
SecondsForOneToken(key) == (60 + BucketRate(key) - 1) \div BucketRate(key)

\* C20: every rejected rate-limit check reports a retry-after equal to the
\* ceiling of the seconds still needed for one token to be refilled (so that
\* a request repeated after that wait is allowed).
C20_RetryAfterIsTimeToToken ==
    rresp.status = 429 =>
        rresp.retry_after = SecondsForOneToken(rresp.key) - rresp.sinceRefill

\* C21: when the store is unavailable or a query fails during login or
\* session validation, the request ends with a storage error (503); the
\* failure is never reported as invalid credentials or an invalid session (401).
C21_StoreFailureIs503 ==
    (resp.op \in {"login", "profile"} /\ resp.fault \in {"connect", "query"}) =>
        resp.status = 503

\* an outcome without what it says about the activity log
Primary(o) == [o EXCEPT !.resp.logged = <<>>, !.resp.fault = NoFault]

\* C22: a registration, login or logout whose activity insert fails returns
\* the same result and leaves the same user and session state as when the
\* insert succeeds.
C22_AuditFailureChangesNothing ==
    /\ \A req \in Registrations({AliceX}, {NULL}) :
          {Primary(o) : o \in RegisterOutcomes(users, req, "activity")}
            = {Primary(o) : o \in RegisterOutcomes(users, req, NoFault)}
    /\ \A raw \in FaultEmails, pw \in PasswordInputs :
          Primary(LoginOutcome(users, sessions, nextToken, raw, pw, "activity", LocalNow, now))
            = Primary(LoginOutcome(users, sessions, nextToken, raw, pw, NoFault, LocalNow, now))
    /\ \A token \in Credentials :
          Primary(LogoutOutcome(sessions, users, token, "activity", now))
            = Primary(LogoutOutcome(sessions, users, token, NoFault, now))

\* a login succeeded and left a session although no activity row was written
C22_Witness ==
    /\ resp.op = "login" /\ resp.fault = "activity" /\ resp.status = 200
    /\ resp.logged = <<>>
    /\ \E s \in sessions : s.SessionToken = resp.token /\ s.IsActive
    /\ users[LoginTarget].LoginAttempts = 0

\* C23: each successful registration, successful login, failed login and
\* logout inserts exactly one activity record (the log is append-only, one
\* record per event).
C23_OneRecordPerEvent ==
    (/\ resp.fault = NoFault
     /\ \/ resp.op \in {"register", "logout"} /\ resp.status = 200
        \/ resp.op = "login" /\ resp.status \in {200, 401})
      => Len(resp.logged) = 1

\* the rows with this email whose active flag is false
Deactivated(Email) == {i \in DOMAIN users : users[i].Email = Email /\ ~users[i].IsActive}

\* C24: GetUserByEmail and GetUserById return only users whose active flag is
\* true; a login for a deactivated user never succeeds, creates no session
\* and leaves the Users table (counter, lock-expiry) as it was.
C24_DeactivatedCannotLogin ==
    /\ [](\A i \in DOMAIN users : ~users[i].IsActive =>
              /\ GetUserByEmail(users, users[i].Email) = 0
              /\ GetUserById(users, i) = 0)
    /\ [][ (resp'.op = "login" /\ Deactivated(resp'.email) # {}) =>
              /\ resp'.status = 401
              /\ users' = users
              /\ sessions' = sessions
              /\ nextToken' = nextToken ]_vars

\* the correct password was refused for a deactivated account that had
\* failed attempts on its counter
C24_Witness ==
    /\ resp.op = "login" /\ resp.password = GoodPassword /\ resp.status = 401
    /\ \E i \in Deactivated(resp.email) : users[i].LoginAttempts > 0

\* C25: buckets are keyed by (caller identity, endpoint class): one caller's
\* requests to two endpoints of the same class take their tokens from one
\* shared bucket.
C25_OneBucketPerClass ==
    \A k1, k2 \in DOMAIN buckets :
        (k1[3] = k2[3] /\ RateLimitType(k1[1]) = RateLimitType(k2[1])) => k1 = k2

\* the check of this step ran the sweep
SweepRuns == rresp'.key # <<>> /\ time - last_cleanup >= cleanup_interval
\* the sweep of this step removed bucket k (the bucket of the request is
\* created again at once)
SweptAway(k) == k \notin DOMAIN buckets' \/ (k = rresp'.key /\ rresp'.isNew)

\* C26 as stated: the sweep removes every bucket untouched for longer than
\* the staleness window and no bucket touched within the window; the buckets
\* it keeps have their token count and last-refill time unchanged.
C26_SweepByLastTouch ==
    [][ SweepRuns => \A k \in DOMAIN buckets :
          /\ SweptAway(k) <=> time - touched[k] > StaleAfter
          /\ (~SweptAway(k) /\ k # rresp'.key) => buckets'[k] = buckets[k] ]_vars

\* C26 amended: the sweep removes exactly the buckets whose last refill is
\* more than the staleness window ago, among them every bucket untouched for
\* longer than the window; the buckets it keeps have their token count and
\* last-refill time unchanged.
C26_SweepByLastRefill ==
    [][ SweepRuns => \A k \in DOMAIN buckets :
          /\ SweptAway(k) <=> time - buckets[k].last_refill > StaleAfter
          /\ time - touched[k] > StaleAfter => SweptAway(k)
          /\ (~SweptAway(k) /\ k # rresp'.key) => buckets'[k] = buckets[k] ]_vars

\* a check has just swept a bucket away that was checked within the window
C26_Witness ==
    /\ rresp.key # <<>> /\ last_cleanup = time
    /\ \E k \in DOMAIN touched \ DOMAIN buckets : time - touched[k] <= StaleAfter

\* C27: in every reachable state, under any interleaving of concurrent
\* logins on one account, the account's lock-expiry is set if and only if
\* its failed-attempt counter is at least MAX_LOGIN_ATTEMPTS.
C27_LockIffThreshold ==
    \A i \in DOMAIN users :
        users[i].AccountLockedUntil # NULL <=> users[i].LoginAttempts >= MAX_LOGIN_ATTEMPTS

\* C28: when is_allowed checks on one bucket run concurrently in different
\* threads, no more of them are let through than the bucket holds tokens (of
\* two checks on a bucket with one token at most one is allowed) and the
\* token count never becomes negative.
C28_NoDoubleSpend ==
    RaceKey \in DOMAIN buckets =>
        /\ buckets[RaceKey].tokens >= 0
        /\ Cardinality({p \in Procs : procs[p].pc \in {"ia_load", "ia_store"}})
              <= buckets[RaceKey].tokens

\* C29: sessions are created only by a successful login: a login that
\* returns 200 inserts exactly one new active session owned by the
\* authenticated user; a login that ends in 401 or 423 inserts none; a login
\* with an unknown email changes no user's counter or lock.
C29_SessionsOnlyFromLogin ==
    [][ LET id == GetUserByEmail(users, resp'.email)
            Tokens(S) == {s.SessionToken : s \in S}
        IN  /\ (resp'.op = "login" /\ resp'.status = 200) =>
                  /\ id # 0
                  /\ resp'.token \notin Tokens(sessions)
                  /\ sessions' = sessions \cup
                        {s \in sessions' : /\ s.SessionToken = resp'.token
                                           /\ s.UserId = id /\ s.IsActive}
                  /\ Cardinality(sessions') = Cardinality(sessions) + 1
            /\ (resp'.op = "login" /\ resp'.status \in {401, 423}) => sessions' = sessions
            /\ (resp'.op = "login" /\ id = 0) => (resp'.status # 200 /\ users' = users)
            /\ ~(Tokens(sessions') \subseteq Tokens(sessions)) =>
                  (resp'.op = "login" /\ resp'.status = 200) ]_vars

\* a login has returned 200 and its session is in the table, after logins
\* that were refused
C29_Witness ==
    /\ resp.op = "login" /\ resp.status = 200 /\ resp.fault = NoFault
    /\ resp.attemptsBefore > 0
    /\ \E s \in sessions : s.SessionToken = resp.token /\ s.UserId = LoginTarget /\ s.IsActive

\* C30: CreateUser called without a username stores the part of the email
\* before '@' as the username; usernames are unique across users; registering
\* a second user with a different email that has the same local part and no
\* explicit username fails with the username conflict and adds no user.
C30_DefaultUsernameUnique ==
    /\ \A i, j \in DOMAIN users : i # j => users[i].Username # users[j].Username
    /\ (resp.op = "register" /\ resp.request.username = NULL) =>
          /\ resp.status = 200 =>
                users[Len(users)].Username = SplitAtFirst(resp.email)
          /\ (/\ \E i \in 1 .. resp.usersBefore :
                    users[i].Username = SplitAtFirst(resp.email)
              /\ \A i \in 1 .. resp.usersBefore : users[i].Email # resp.email)
             => /\ resp.status = 409
                /\ resp.detail = "Username already taken"
                /\ Len(users) = resp.usersBefore

\* a registration without username was refused for its local part alone
C30_Witness ==
    /\ resp.op = "register" /\ resp.request.username = NULL
    /\ resp.status = 409 /\ resp.detail = "Username already taken"
    /\ \A i \in DOMAIN users : users[i].Email # resp.email
    /\ \E i \in DOMAIN users : users[i].Username = SplitAtFirst(resp.email)

LoginKey == get_bucket_key("10.0.0.1", LoginPath)
LoginBurst == get_rate_config(LoginPath).burst_limit
LoginPerMinute == get_rate_config(LoginPath).requests_per_minute

\* C11 as stated: of the requests one client sends to /api/auth/login within
\* one minute, the one after the first requests_per_minute (the 11th) is
\* rejected with 429.
C11_EleventhLoginRejected ==
    (rresp.key = LoginKey /\ rresp.nth = LoginPerMinute + 1) => rresp.status = 429

\* C11 amended: of the requests one client sends back to back to
\* /api/auth/login on a fresh bucket, the first burst_limit (15, the 11th
\* among them) are admitted; the one after them is rejected with 429 and a
\* Retry-After of at least one second; no login check is rejected while the
\* bucket holds a token.
C11_LoginBurstThenRetryAfter ==
    rresp.key = LoginKey =>
        /\ (rresp.nth \in 1 .. LoginBurst) => (rresp.allowed /\ rresp.status = 0)
        /\ rresp.nth = LoginBurst + 1 => rresp.status = 429
        /\ rresp.status = 429 =>
              (rresp.retry_after >= 1 /\ buckets[LoginKey].tokens = 0)

C11_Witness ==
    /\ rresp.key = LoginKey /\ rresp.nth = LoginPerMinute + 1
    /\ rresp.allowed /\ rresp.remaining = LoginBurst - LoginPerMinute - 1

====
